---------------------------- MODULE Spec2Model ----------------------------
(***************************************************************************)
(* Stale-while-revalidate cache coordinator (cache_manager.CacheManager). *)
(*                                                                         *)
(* Request threads run stale_while_revalidate one statement at a time,     *)
(* refresh tasks submitted to the ThreadPoolExecutor and periodic jobs of  *)
(* the BackgroundScheduler run update_cache one statement at a time, and   *)
(* all of them share one cache store (a dict of key -> (expires, value)).  *)
(***************************************************************************)
EXTENDS Integers, Sequences, FiniteSets, Bags, TLC

(* ------------------------------ bounds -------------------------------- *)
MaxTime == 1                  \* the clock runs over 0..MaxTime
MaxTasks == 2                 \* refresh tasks alive in the two pools at once

Readers == {"r1", "r2"}       \* request threads
Values == {"V1", "V2"}        \* what a compute function may return

(* --------------------------- request identity ------------------------- *)
\* A request is [path, query]; query is the sequence of <<name, value>>
\* pairs in the order of the query string.
Param(n, v) == <<n, v>>

\* str.lower() over the alphabet of parameter values used here
Lower(s) ==
  CASE s = "TRUE" -> "true"
    [] s = "True" -> "true"
    [] s = "YES"  -> "yes"
    [] OTHER      -> s

\* request.args is a MultiDict: iterating items() yields every name once, in
\* the order of its first occurrence, with the first value given for it.
RECURSIVE Items(_)
Items(q) ==
  IF q = <<>> THEN <<>>
  ELSE LET rest == Items(SubSeq(q, 1, Len(q) - 1))
           last == q[Len(q)]
       IN IF \E i \in 1..(Len(q) - 1) : q[i][1] = last[1]
          THEN rest
          ELSE Append(rest, last)

PopNothing(items) == items

\* args.pop('force_refresh') removes the name with all its values
PopForceRefresh(items) == SelectSeq(items, LAMBDA p : p[1] # "force_refresh")

\* '&'.join([f'{k}={v}' for k, v in args.items()])
RECURSIVE JoinPairs(_)
JoinPairs(items) ==
  IF items = <<>> THEN ""
  ELSE LET kv == items[1][1] \o "=" \o items[1][2]
       IN IF Len(items) = 1 THEN kv
          ELSE kv \o "&" \o JoinPairs(Tail(items))

GenerateKey(req) ==
  LET query_string == JoinPairs(PopForceRefresh(Items(req.query)))
  IN IF query_string # "" THEN req.path \o "?" \o query_string
     ELSE req.path

\* request.args.get('force_refresh', '').lower() in ('true', '1', 'yes')
ForceRefresh(req) ==
  LET hits == SelectSeq(req.query, LAMBDA p : p[1] = "force_refresh")
      raw  == IF hits = <<>> THEN "" ELSE hits[1][2]
  IN Lower(raw) \in {"true", "1", "yes"}

RefreshingKey(key) == key \o "_refreshing"

(* ------------------------------ inputs -------------------------------- *)
\* requests served by the coordinator in the concurrent specification
MainRequests ==
  { [path |-> "/p", query |-> <<>>],
    [path |-> "/p", query |-> <<Param("force_refresh", "TRUE")>>] }

MainKeys == { GenerateKey(req) : req \in MainRequests }

\* (timeout, refresh_margin) given to cacher(): a freshness window of one
\* second and a refreshing flag that lives for one second
Configs == { <<2, 1>> }

(* ------------------------------ the store ----------------------------- *)
\* The store is a dict key -> [expires, value]; expires = 0 never expires.
CacheHas(c, now_, k) ==
  k \in DOMAIN c /\ (c[k].expires = 0 \/ c[k].expires > now_)

CacheGet(c, k) == c[k].value

\* cache.set(key, value, timeout=ttl); a ttl of 0 stores a non-expiring entry
Expiry(now_, ttl) == IF ttl > 0 THEN now_ + ttl ELSE 0

CacheSet(c, now_, k, v, ttl) ==
  [x \in (DOMAIN c) \cup {k} |->
      IF x = k THEN [expires |-> Expiry(now_, ttl), value |-> v] ELSE c[x]]

CacheDelete(c, k) == [x \in (DOMAIN c) \ {k} |-> c[x]]

Entry(data, timestamp) == [data |-> data, timestamp |-> timestamp]


(* ------------------------------ state --------------------------------- *)
VARIABLES
  now,             \* time.time(), in whole seconds
  timeout,         \* cacher(timeout, ...)
  refresh_margin,  \* cacher(..., refresh_margin)
  cache,           \* self.cache: the store, entries and refreshing flags
  reader,          \* per request thread: position and locals
  tasks,           \* bag of update_cache runs submitted to the pools
  jobs,            \* self.scheduler.get_jobs(): the jobs in the order added
  compute_func     \* cacher(): the variable the wrappers of a route share

vars == <<now, timeout, refresh_margin, compute_func, cache, reader, tasks, jobs>>

NoRequest == [path |-> "", query |-> <<>>]
NoValue == Entry("", 0)

\* cacher(..., compute_func=None); lambda: func(*args, **kwargs) is known
\* by the arguments it closes over
NoFunc == <<>>
NoArgs == ""
Lambda(args) == <<"lambda", args>>

IdleReader ==
  [pc |-> "idle", request |-> NoRequest, args |-> NoArgs,
   compute_func |-> NoFunc, key |-> "", force |-> FALSE,
   value |-> NoValue, new_value |-> "", ts |-> 0, result |-> "",
   outcome |-> ""]

Ack == "OK: Cache refresh triggered in background"

\* stale_while_revalidate returns: its locals are gone, the response stays
\* until the thread takes the next request
Return(me, result, outcome) ==
  [IdleReader EXCEPT !.pc = "done", !.request = me.request, !.key = me.key,
                     !.force = me.force, !.result = result,
                     !.outcome = outcome]

\* self.executor.submit(self._safe_update_cache, key, compute_func, refreshing_key)
NewTask(key, refreshing_key) ==
  [pc |-> "queued", key |-> key, refreshing_key |-> refreshing_key,
   val |-> "", ts |-> 0]

Submit(b, t) == b (+) SetToBag({t})
Retire(b, t) == b (-) SetToBag({t})
Move(b, t, u) == Submit(Retire(b, t), u)

ActiveReaders == { r \in Readers : reader[r].pc # "idle" }

\* room for one more run of update_cache in the pools, counting the one
\* every request in flight may still submit
HasRoom == BagCardinality(tasks) + Cardinality(ActiveReaders) < MaxTasks

\* after CacheManager(app, cache) and cacher(timeout, refresh_margin)
InitAt(c) ==
  /\ now = 0
  /\ timeout = c[1] /\ refresh_margin = c[2]
  /\ cache = << >>
  /\ reader = [r \in Readers |-> IdleReader]
  /\ tasks = EmptyBag
  /\ jobs = << >>
  /\ compute_func = NoFunc

Init == \E c \in Configs : InitAt(c)

(* ----------------------- stale_while_revalidate ------------------------ *)
\* line 173: compute_func = compute_func or (lambda: func(*args, **kwargs))
\* on the nonlocal variable of cacher()
Bound(args) == IF compute_func = NoFunc THEN Lambda(args) ELSE compute_func

\* a request arrives on thread r and the route's wrapper is called with the
\* view arguments args; lines 171-174, then lines 63-69 of
\* stale_while_revalidate: derive the key, read the control parameter, branch
Wrapped(r, req, args) ==
  /\ reader[r].pc = "idle"
  /\ HasRoom
  /\ compute_func' = Bound(args)
  /\ LET force_refresh == ForceRefresh(req)
     IN reader' = [reader EXCEPT ![r] =
          [IdleReader EXCEPT !.request = req,
                             !.args = args,
                             !.compute_func = Bound(args),
                             !.key = GenerateKey(req),
                             !.force = force_refresh,
                             !.pc = IF force_refresh THEN "force_check"
                                    ELSE "get"]]
  /\ UNCHANGED <<now, timeout, refresh_margin, cache, tasks, jobs>>

\* a request to a route whose view function takes no arguments
Serve(r, req) == Wrapped(r, req, NoArgs)

Request(r) == \E req \in MainRequests : Serve(r, req)

\* ForceCheck without the test of line 74: a forced refresh always dispatches
ForceCheckIgnoresFlag(r) ==
  /\ reader[r].pc = "force_check"
  /\ reader' = [reader EXCEPT ![r].pc = "force_dispatch"]
  /\ UNCHANGED <<now, timeout, refresh_margin, compute_func, cache, tasks, jobs>>

\* line 74: if not self.cache.get(refreshing_key); a present flag goes
\* straight to line 79 and returns the acknowledgment
ForceCheck(r) ==
  /\ reader[r].pc = "force_check"
  /\ reader' = [reader EXCEPT ![r] =
       IF CacheHas(cache, now, RefreshingKey(reader[r].key))
       THEN Return(reader[r], Ack, "ack")
       ELSE [reader[r] EXCEPT !.pc = "force_dispatch"]]
  /\ UNCHANGED <<now, timeout, refresh_margin, compute_func, cache, tasks, jobs>>

\* lines 75-76 and 79: self.cache.set(refreshing_key, True,
\* timeout=refresh_margin), submit the refresh, return the acknowledgment.
\* The two statements are one step: nothing reads the executor's queue but
\* the pool thread that later takes the task.
ForceDispatch(r) ==
  /\ reader[r].pc = "force_dispatch"
  /\ cache' = CacheSet(cache, now, RefreshingKey(reader[r].key), TRUE,
                       refresh_margin)
  /\ tasks' = Submit(tasks, NewTask(reader[r].key, RefreshingKey(reader[r].key)))
  /\ reader' = [reader EXCEPT ![r] = Return(reader[r], Ack, "ack")]
  /\ UNCHANGED <<now, timeout, refresh_margin, compute_func, jobs>>

\* StaleCheck without the test of line 91: a stale read always dispatches
StaleCheckIgnoresFlag(r) ==
  /\ reader[r].pc = "stale_check"
  /\ reader' = [reader EXCEPT ![r].pc = "stale_dispatch"]
  /\ UNCHANGED <<now, timeout, refresh_margin, compute_func, cache, tasks, jobs>>

\* line 91: if not self.cache.get(refreshing_key); a present flag goes
\* straight to line 94 and returns the data read at line 82
StaleCheck(r) ==
  /\ reader[r].pc = "stale_check"
  /\ reader' = [reader EXCEPT ![r] =
       IF CacheHas(cache, now, RefreshingKey(reader[r].key))
       THEN Return(reader[r], reader[r].value.data, "stale")
       ELSE [reader[r] EXCEPT !.pc = "stale_dispatch"]]
  /\ UNCHANGED <<now, timeout, refresh_margin, compute_func, cache, tasks, jobs>>

\* lines 92-94: set the flag, submit the refresh, return the data read at
\* line 82
StaleDispatch(r) ==
  /\ reader[r].pc = "stale_dispatch"
  /\ cache' = CacheSet(cache, now, RefreshingKey(reader[r].key), TRUE,
                       refresh_margin)
  /\ tasks' = Submit(tasks, NewTask(reader[r].key, RefreshingKey(reader[r].key)))
  /\ reader' = [reader EXCEPT ![r] =
                  Return(reader[r], reader[r].value.data, "stale")]
  /\ UNCHANGED <<now, timeout, refresh_margin, compute_func, jobs>>

\* lines 82-83 and 95-97: value = self.cache.get(key); a miss calls compute_func
GetEntry(r) ==
  /\ reader[r].pc = "get"
  /\ reader' = [reader EXCEPT ![r] =
       IF CacheHas(cache, now, reader[r].key)
       THEN [reader[r] EXCEPT !.pc = "check",
                              !.value = CacheGet(cache, reader[r].key)]
       ELSE [reader[r] EXCEPT !.pc = "computing"]]
  /\ UNCHANGED <<now, timeout, refresh_margin, compute_func, cache, tasks, jobs>>

\* IsFresh with the boundary second counted as fresh
IsFreshInclusive(now_, last_update, timeout_, margin_) ==
  now_ - last_update <= timeout_ - margin_

\* IsFresh with the operands of the window swapped
IsFreshSwapped(now_, last_update, timeout_, margin_) ==
  now_ - last_update < margin_ - timeout_

\* IsFresh with the margin left out of the window
IsFreshTimeoutOnly(now_, last_update, timeout_, margin_) ==
  now_ - last_update < timeout_

\* line 85: time.time() - last_update < timeout - refresh_margin
IsFresh(now_, last_update, timeout_, margin_) ==
  now_ - last_update < timeout_ - margin_

\* lines 84-90: hit returns the data, stale goes on to the refreshing flag
CheckFresh(r) ==
  /\ reader[r].pc = "check"
  /\ reader' = [reader EXCEPT ![r] =
       IF IsFresh(now, reader[r].value.timestamp, timeout, refresh_margin)
       THEN Return(reader[r], reader[r].value.data, "hit")
       ELSE [reader[r] EXCEPT !.pc = "stale_check"]]
  /\ UNCHANGED <<now, timeout, refresh_margin, compute_func, cache, tasks, jobs>>

\* line 97: compute_func() returns on the calling thread; line 98 ->
\* 131-132: the lambda returns new_value and time.time() is read as the
\* argument of cache.set
MissComputed(r) ==
  /\ reader[r].pc = "computing"
  /\ \E v \in Values :
       reader' = [reader EXCEPT ![r].pc = "miss_set", ![r].new_value = v,
                                ![r].ts = now]
  /\ UNCHANGED <<now, timeout, refresh_margin, compute_func, cache, tasks, jobs>>

\* MissRaised with the cleanup of update_cache's handler: the flag is deleted
MissRaisedCleansFlag(r) ==
  /\ reader[r].pc = "computing"
  /\ cache' = CacheDelete(cache, RefreshingKey(reader[r].key))
  /\ reader' = [reader EXCEPT ![r] = Return(reader[r], "raised", "raised")]
  /\ UNCHANGED <<now, timeout, refresh_margin, compute_func, tasks, jobs>>

\* line 97: compute_func() raises; nothing catches it in the coordinator
MissRaised(r) ==
  /\ reader[r].pc = "computing"
  /\ reader' = [reader EXCEPT ![r] = Return(reader[r], "raised", "raised")]
  /\ UNCHANGED <<now, timeout, refresh_margin, compute_func, cache, tasks, jobs>>

\* MissSet storing the entry without the clock value it read
MissSetNoTimestamp(r) ==
  /\ reader[r].pc = "miss_set"
  /\ cache' = CacheSet(cache, now, reader[r].key,
                       Entry(reader[r].new_value, 0), 0)
  /\ reader' = [reader EXCEPT ![r] =
                  Return(reader[r], reader[r].new_value, "miss")]
  /\ UNCHANGED <<now, timeout, refresh_margin, compute_func, tasks, jobs>>

\* line 132 (refreshing_key is None: lines 134-135 do nothing), line 99
MissSet(r) ==
  /\ reader[r].pc = "miss_set"
  /\ cache' = CacheSet(cache, now, reader[r].key,
                       Entry(reader[r].new_value, reader[r].ts), 0)
  /\ reader' = [reader EXCEPT ![r] =
                  Return(reader[r], reader[r].new_value, "miss")]
  /\ UNCHANGED <<now, timeout, refresh_margin, compute_func, tasks, jobs>>

\* the response is sent; the thread is free for the next request
Finish(r) ==
  /\ reader[r].pc = "done"
  /\ reader' = [reader EXCEPT ![r] = IdleReader]
  /\ UNCHANGED <<now, timeout, refresh_margin, compute_func, cache, tasks, jobs>>

(* ----------------------------- update_cache --------------------------- *)
\* A run of _safe_update_cache(key, compute_func, refreshing_key) on a pool
\* thread; refreshing_key = "" is the None of the periodic job.

\* a pool thread takes the run: line 131 calls compute_func
TaskStart(t) ==
  /\ t.pc = "queued"
  /\ tasks' = Move(tasks, t, [t EXCEPT !.pc = "computing"])
  /\ UNCHANGED <<now, timeout, refresh_margin, compute_func, cache, reader, jobs>>

\* line 131: compute_func() returns; line 132: time.time() is evaluated
\* for the entry before cache.set runs
TaskComputed(t) ==
  /\ t.pc = "computing"
  /\ \E v \in Values :
       tasks' = Move(tasks, t, [t EXCEPT !.pc = "set", !.val = v, !.ts = now])
  /\ UNCHANGED <<now, timeout, refresh_margin, compute_func, cache, reader, jobs>>

\* line 131 raises -> line 136
TaskRaised(t) ==
  /\ t.pc = "computing"
  /\ tasks' = Move(tasks, t, [t EXCEPT !.pc = "except"])
  /\ UNCHANGED <<now, timeout, refresh_margin, compute_func, cache, reader, jobs>>

\* TaskSet that leaves an entry alone while it is inside the freshness window
TaskSetUnlessFresh(t) ==
  /\ t.pc = "set"
  /\ cache' = IF /\ CacheHas(cache, now, t.key)
                 /\ IsFresh(now, cache[t.key].value.timestamp, timeout,
                            refresh_margin)
              THEN cache
              ELSE CacheSet(cache, now, t.key, Entry(t.val, t.ts), 0)
  /\ tasks' = IF t.refreshing_key # ""
              THEN Move(tasks, t, [t EXCEPT !.pc = "delete", !.val = ""])
              ELSE Retire(tasks, t)
  /\ UNCHANGED <<now, timeout, refresh_margin, compute_func, reader, jobs>>

\* line 132: self.cache.set(key, {'data': ..., 'timestamp': ...}); a run
\* without refreshing_key ends here (line 134)
TaskSet(t) ==
  /\ t.pc = "set"
  /\ cache' = CacheSet(cache, now, t.key, Entry(t.val, t.ts), 0)
  /\ tasks' = IF t.refreshing_key # ""
              THEN Move(tasks, t, [t EXCEPT !.pc = "delete", !.val = ""])
              ELSE Retire(tasks, t)
  /\ UNCHANGED <<now, timeout, refresh_margin, compute_func, reader, jobs>>

\* line 135: self.cache.delete(refreshing_key)
TaskDelete(t) ==
  /\ t.pc = "delete"
  /\ cache' = CacheDelete(cache, t.refreshing_key)
  /\ tasks' = Retire(tasks, t)
  /\ UNCHANGED <<now, timeout, refresh_margin, compute_func, reader, jobs>>

\* TaskExcept without lines 138-139: the handler leaves the flag behind
TaskExceptKeepsFlag(t) ==
  /\ t.pc = "except"
  /\ tasks' = Retire(tasks, t)
  /\ UNCHANGED <<now, timeout, refresh_margin, compute_func, cache, reader, jobs>>

\* TaskExcept that also evicts the entry of the key whose refresh failed
TaskExceptEvicts(t) ==
  /\ t.pc = "except"
  /\ cache' = CacheDelete(CacheDelete(cache, t.refreshing_key), t.key)
  /\ tasks' = Retire(tasks, t)
  /\ UNCHANGED <<now, timeout, refresh_margin, compute_func, reader, jobs>>

\* lines 136-139: the exception is printed, the flag deleted if one was given
TaskExcept(t) ==
  /\ t.pc = "except"
  /\ cache' = IF t.refreshing_key # ""
              THEN CacheDelete(cache, t.refreshing_key)
              ELSE cache
  /\ tasks' = Retire(tasks, t)
  /\ UNCHANGED <<now, timeout, refresh_margin, compute_func, reader, jobs>>

(* ---------------------- schedule_periodic_refresh ---------------------- *)
Intervals == {1}
Funcs == {"compute_trade_summary"}

Job(key, interval, func) == [id |-> key, interval |-> interval, func |-> func]

\* line 146: any(job.id == key for job in existing_jobs)
JobExists(key) == \E i \in 1..Len(jobs) : jobs[i].id = key

ScheduleAlways(key, interval, func) ==
  /\ jobs' = Append(jobs, Job(key, interval, func))
  /\ UNCHANGED <<now, timeout, refresh_margin, compute_func, cache, reader, tasks>>

\* lines 145-155: add the job unless a job with id == key exists
Schedule(key, interval, func) ==
  /\ jobs' = IF JobExists(key)
             THEN jobs
             ELSE Append(jobs, Job(key, interval, func))
  /\ UNCHANGED <<now, timeout, refresh_margin, compute_func, cache, reader, tasks>>

\* a run of the job is alive (the scheduler holds a job to one instance)
JobRunning(key) ==
  \E t \in BagToSet(tasks) : t.key = key /\ t.refreshing_key = ""

\* lines 151-153: the interval trigger fires periodic_refresh_task, which
\* calls self._safe_update_cache(key, compute_func) with no refreshing_key.
\* When the trigger fires is left open: any moment while the job exists.
PeriodicFire(key) ==
  /\ JobExists(key)
  /\ ~JobRunning(key)
  /\ HasRoom
  /\ tasks' = Submit(tasks, NewTask(key, ""))
  /\ UNCHANGED <<now, timeout, refresh_margin, compute_func, cache, reader, jobs>>

(* ------------------------------- time ---------------------------------- *)
Tick ==
  /\ now < MaxTime
  /\ now' = now + 1
  /\ UNCHANGED <<timeout, refresh_margin, compute_func, cache, reader, tasks, jobs>>

(* --------------------------- specification ----------------------------- *)
Next ==
  \/ \E r \in Readers : Request(r)
  \/ \E r \in Readers : ForceCheck(r)
  \/ \E r \in Readers : ForceDispatch(r)
  \/ \E r \in Readers : GetEntry(r)
  \/ \E r \in Readers : CheckFresh(r)
  \/ \E r \in Readers : StaleCheck(r)
  \/ \E r \in Readers : StaleDispatch(r)
  \/ \E r \in Readers : MissComputed(r)
  \/ \E r \in Readers : MissRaised(r)
  \/ \E r \in Readers : MissSet(r)
  \/ \E r \in Readers : Finish(r)
  \/ \E t \in BagToSet(tasks) : TaskStart(t)
  \/ \E t \in BagToSet(tasks) : TaskComputed(t)
  \/ \E t \in BagToSet(tasks) : TaskRaised(t)
  \/ \E t \in BagToSet(tasks) : TaskSet(t)
  \/ \E t \in BagToSet(tasks) : TaskDelete(t)
  \/ \E t \in BagToSet(tasks) : TaskExcept(t)
  \/ \E k \in MainKeys, i \in Intervals, f \in Funcs : Schedule(k, i, f)
  \/ \E k \in MainKeys : PeriodicFire(k)
  \/ Tick

Spec == Init /\ [][Next]_vars

TypeOK ==
  /\ now \in 0..MaxTime
  /\ BagCardinality(tasks) <= MaxTasks

(* ------------------------ key derivation alone ------------------------- *)
MaxParams == 2                \* parameters in a query string

KeyPairs ==
  { Param(n, v) : n \in {"a", "b"}, v \in {"1", "2"} }
    \cup { Param("force_refresh", v) : v \in {"TRUE", "1", "no"} }

RECURSIVE SeqsUpTo(_, _)
SeqsUpTo(S, n) ==
  IF n = 0 THEN { <<>> }
  ELSE LET shorter == SeqsUpTo(S, n - 1)
       IN shorter \cup { Append(q, x) : q \in shorter, x \in S }

KeyRequests == { [path |-> "/p", query |-> q] : q \in SeqsUpTo(KeyPairs, MaxParams) }

\* requests of any shape arrive; each thread stops once lines 63-69 ran
KeyRequest(r) == \E req \in KeyRequests : Serve(r, req)

NextKey == \E r \in Readers : KeyRequest(r)

SpecKey == Init /\ [][NextKey]_vars

(* ------------------------- registration alone -------------------------- *)
\* schedule_periodic_refresh called any number of times, with any key,
\* interval and compute function
SchedKeys == {"/trade_summary", "/product_betas", "/p"}
SchedIntervals == {10, 30}
SchedFuncs == {"compute_trade_summary", "compute_product_betas"}

NextSched ==
  \E k \in SchedKeys, i \in SchedIntervals, f \in SchedFuncs :
     Schedule(k, i, f)

SpecSched == Init /\ [][NextSched]_vars

(* ------------------------- the window of zero -------------------------- *)
\* the route of app.py: cacher(timeout=0, refresh_margin=0)
ZeroConfig == <<0, 0>>

InitZero == InitAt(ZeroConfig)

SpecZero == InitZero /\ [][Next]_vars

(* ------------------------- one caller, in turn ------------------------- *)
\* cacher(timeout=20, refresh_margin=10), one caller reading /p at the
\* seconds of E2ETimes; every call returns, and the refresh it dispatched
\* ends, before the next one is made
E2EConfig == <<20, 10>>
E2ETimes == <<0, 5, 12, 13>>
E2ECaller == "r1"
E2ERequest == [path |-> "/p", query |-> <<>>]

InitE2E == InitAt(E2EConfig)

E2ERead == Serve(E2ECaller, E2ERequest)

\* the caller has its response and the pools are idle: the clock moves to
\* the second of the next read
E2ETick ==
  /\ reader[E2ECaller].pc = "done"
  /\ tasks = EmptyBag
  /\ \E i \in 1..(Len(E2ETimes) - 1) :
       now = E2ETimes[i] /\ now' = E2ETimes[i + 1]
  /\ reader' = [reader EXCEPT ![E2ECaller] = IdleReader]
  /\ UNCHANGED <<timeout, refresh_margin, compute_func, cache, tasks, jobs>>

NextE2E ==
  \/ E2ERead
  \/ GetEntry(E2ECaller)
  \/ CheckFresh(E2ECaller)
  \/ StaleCheck(E2ECaller)
  \/ StaleDispatch(E2ECaller)
  \/ MissComputed(E2ECaller)
  \/ MissRaised(E2ECaller)
  \/ MissSet(E2ECaller)
  \/ \E t \in BagToSet(tasks) : TaskStart(t)
  \/ \E t \in BagToSet(tasks) : TaskComputed(t)
  \/ \E t \in BagToSet(tasks) : TaskRaised(t)
  \/ \E t \in BagToSet(tasks) : TaskSet(t)
  \/ \E t \in BagToSet(tasks) : TaskDelete(t)
  \/ \E t \in BagToSet(tasks) : TaskExcept(t)
  \/ E2ETick

SpecE2E == InitE2E /\ [][NextE2E]_vars

(* ----------------------- a refresh that may hang ----------------------- *)
\* a pool thread that holds a dispatched refresh runs every statement of
\* update_cache but the call of compute_func, which nothing cancels and
\* which may never return
RefreshAdvance ==
  \E t \in BagToSet(tasks) :
     /\ t.refreshing_key # ""
     /\ TaskStart(t) \/ TaskSet(t) \/ TaskDelete(t) \/ TaskExcept(t)

\* the clock runs and the pool threads run, under the configuration of
\* app.py
SpecHang ==
  InitZero /\ [][Next]_vars /\ WF_vars(Tick) /\ WF_vars(RefreshAdvance)

(* ---------------------- a route with an argument ----------------------- *)
\* @app.route('/item/<id>') wrapped by cacher(timeout, refresh_margin): the
\* view function receives id, and the request path carries it
ViewArgs == {"1", "2"}
ViewRequest(id) == [path |-> "/item/" \o id, query |-> <<>>]

ViewCall(r) == \E id \in ViewArgs : Wrapped(r, ViewRequest(id), id)

\* calls of the wrapper on a store that is filled on the way; the clock
\* stands still, so every entry stays fresh
NextView ==
  \/ \E r \in Readers : ViewCall(r)
  \/ \E r \in Readers : GetEntry(r)
  \/ \E r \in Readers : CheckFresh(r)
  \/ \E r \in Readers : MissComputed(r)
  \/ \E r \in Readers : MissRaised(r)
  \/ \E r \in Readers : MissSet(r)
  \/ \E r \in Readers : Finish(r)

SpecView == Init /\ [][NextView]_vars

(* ------------------------------ helpers -------------------------------- *)
Stepped(r) == reader'[r] # reader[r]

Held(k) == CacheHas(cache, now, RefreshingKey(k))

ComputingReaders(k) ==
  { r \in Readers : reader[r].pc = "computing" /\ reader[r].key = k }

ComputingTasks(k) ==
  { t \in BagToSet(tasks) : t.pc = "computing" /\ t.key = k }

RECURSIVE SumCopies(_, _)
SumCopies(b, S) ==
  IF S = {} THEN 0
  ELSE LET t == CHOOSE x \in S : TRUE
       IN CopiesIn(t, b) + SumCopies(b, S \ {t})

\* invocations of compute_func on behalf of k that have not returned
InProgress(k) ==
  Cardinality(ComputingReaders(k)) + SumCopies(tasks, ComputingTasks(k))

\* a refresh for k was handed to the executor in this step
Dispatched(k) ==
  CopiesIn(NewTask(k, RefreshingKey(k)), tasks')
    > CopiesIn(NewTask(k, RefreshingKey(k)), tasks)

EntryOf(c, k) == IF k \in DOMAIN c THEN <<c[k]>> ELSE << >>

(* ------------------------------- claims -------------------------------- *)

\* C1: for every key, at most one invocation of compute_func on behalf of
\* that key (miss, dispatched refresh, forced refresh, periodic tick) is in
\* progress at any instant.
Singleflight == \A k \in MainKeys : InProgress(k) <= 1

\* C2: while a refreshing flag for a key exists, no second refresh task for
\* that key is submitted.
NoSecondDispatch ==
  [][\A k \in MainKeys : Held(k) => ~Dispatched(k)]_vars

\* the store and the executor's queue as one call may change them
Untouched == cache' = cache /\ tasks' = tasks /\ jobs' = jobs

\* the refreshing flag of k was set with TTL refresh_margin and one refresh
\* for k was submitted, nothing else
DispatchedOnce(k) ==
  /\ cache' = CacheSet(cache, now, RefreshingKey(k), TRUE, refresh_margin)
  /\ cache'[RefreshingKey(k)].expires = Expiry(now, refresh_margin)
  /\ tasks' = Submit(tasks, NewTask(k, RefreshingKey(k)))

\* C3: a non-forced resolve whose entry is outside the freshness window
\* (now - timestamp >= timeout - refresh_margin) returns the data of the
\* entry it read, in a step of its own that waits for no refresh, whether or
\* not a refreshing flag exists; it sets the flag (TTL = refresh_margin) and
\* submits one refresh if and only if it found no flag.
StaleServed ==
  [][\A r \in Readers :
       LET me == reader[r]
           after == reader'[r]
       IN /\ ( /\ me.pc = "check"
               /\ now - me.value.timestamp >= timeout - refresh_margin
               /\ Stepped(r) )
             => after = [me EXCEPT !.pc = "stale_check"] /\ Untouched
          /\ (me.pc = "stale_check" /\ Stepped(r) /\ Held(me.key))
             => /\ after.pc = "done" /\ after.outcome = "stale"
                /\ after.result = me.value.data
                /\ Untouched
          /\ (me.pc = "stale_check" /\ Stepped(r) /\ ~Held(me.key))
             => after = [me EXCEPT !.pc = "stale_dispatch"] /\ Untouched
          /\ (me.pc = "stale_dispatch" /\ Stepped(r))
             => /\ after.pc = "done" /\ after.outcome = "stale"
                /\ after.result = me.value.data
                /\ DispatchedOnce(me.key)
          /\ me.pc \in {"stale_check", "stale_dispatch"}
             => ENABLED (StaleCheck(r) \/ StaleDispatch(r))
          /\ after.outcome = "stale" => me.pc \in {"stale_check", "stale_dispatch", "done"}
    ]_vars

\* a stale read returned the old data and left a refresh queued behind it
StaleServedWitness ==
  \E r \in Readers :
    /\ reader[r].pc = "done" /\ reader[r].outcome = "stale"
    /\ reader[r].result \in Values
    /\ Held(reader[r].key)
    /\ CopiesIn(NewTask(reader[r].key, RefreshingKey(reader[r].key)), tasks) = 1

\* C4: a non-forced resolve on a fresh entry (now - timestamp < timeout -
\* refresh_margin) returns the stored data, and no step of the call changes
\* the entry, the refreshing flag or the submitted refresh tasks.
FreshHit ==
  [][\A r \in Readers :
       LET me == reader[r]
           after == reader'[r]
       IN /\ (me.pc = "get" /\ Stepped(r) /\ CacheHas(cache, now, me.key))
             => /\ after = [me EXCEPT !.pc = "check", !.value = cache[me.key].value]
                /\ Untouched
          /\ ( /\ me.pc = "check"
               /\ now - me.value.timestamp < timeout - refresh_margin
               /\ Stepped(r) )
             => /\ after.pc = "done" /\ after.outcome = "hit"
                /\ after.result = me.value.data
                /\ Untouched
          /\ after.outcome = "hit"
             => \/ me.outcome = "hit"
                \/ /\ me.pc = "check" /\ ~me.force
                   /\ now - me.value.timestamp < timeout - refresh_margin
    ]_vars

\* a hit was served from an entry that is still in the store
FreshHitWitness ==
  \E r \in Readers :
    /\ reader[r].pc = "done" /\ reader[r].outcome = "hit"
    /\ reader[r].key \in DOMAIN cache
    /\ reader[r].result = cache[reader[r].key].value.data

\* C5: a non-forced resolve on a key with no entry calls compute_func on
\* the calling thread (nothing is submitted), stores {data = the computed
\* value, timestamp = the clock read when the value came back} under the
\* key, and returns exactly that value.
MissFill ==
  [][\A r \in Readers :
       LET me == reader[r]
           after == reader'[r]
       IN /\ (me.pc = "get" /\ Stepped(r) /\ ~CacheHas(cache, now, me.key))
             => after = [me EXCEPT !.pc = "computing"] /\ Untouched
          /\ (me.pc = "computing" /\ Stepped(r) /\ after.outcome # "raised")
             => /\ after.pc = "miss_set"
                /\ after.new_value \in Values
                /\ after.ts = now
                /\ Untouched
          /\ (me.pc = "miss_set" /\ Stepped(r))
             => /\ DOMAIN cache' = DOMAIN cache \cup {me.key}
                /\ cache'[me.key].value = Entry(me.new_value, me.ts)
                /\ me.ts <= now
                /\ \A x \in DOMAIN cache \ {me.key} : cache'[x] = cache[x]
                /\ tasks' = tasks
                /\ after.pc = "done" /\ after.outcome = "miss"
                /\ after.result = me.new_value
          /\ after.outcome = "miss" => me.pc \in {"miss_set", "done"}
    ]_vars

\* a miss was filled after the clock had moved, and the entry carries it
MissFillWitness ==
  \E r \in Readers :
    /\ reader[r].pc = "done" /\ reader[r].outcome = "miss"
    /\ reader[r].key \in DOMAIN cache
    /\ cache[reader[r].key].value = Entry(reader[r].result, 1)

\* C6: when compute_func raises on the miss path the caller gets the
\* failure, and no step of that call touches the store: no entry appears,
\* no refreshing flag is set or deleted.
MissFailure ==
  [][\A r \in Readers :
       LET me == reader[r]
           after == reader'[r]
       IN /\ (me.pc \in {"idle", "get"} /\ Stepped(r)) => Untouched
          /\ (me.pc = "computing" /\ Stepped(r) /\ after.new_value \notin Values)
             => /\ after.pc = "done" /\ after.outcome = "raised"
                /\ after.result = "raised"
                /\ Untouched
          /\ after.outcome = "raised" => me.pc \in {"computing", "done"}
    ]_vars

\* the failure reached the caller while a refreshing flag set by somebody
\* else is still there and the key still has no entry
MissFailureWitness ==
  \E r \in Readers :
    /\ reader[r].pc = "done" /\ reader[r].outcome = "raised"
    /\ reader[r].key \notin DOMAIN cache
    /\ Held(reader[r].key)

\* C7: a forced refresh never reads the entry and never calls compute_func:
\* whatever the store holds it returns the acknowledgment in steps of its
\* own, and it sets the flag and submits a refresh only if it found no flag.
ForcedAck ==
  [][\A r \in Readers :
       LET me == reader[r]
           after == reader'[r]
       IN /\ (me.pc = "idle" /\ Stepped(r) /\ ForceRefresh(after.request))
             => after.pc = "force_check" /\ after.force /\ Untouched
          /\ (me.pc = "force_check" /\ Stepped(r) /\ Held(me.key))
             => /\ after.pc = "done" /\ after.outcome = "ack"
                /\ after.result = Ack
                /\ Untouched
          /\ (me.pc = "force_check" /\ Stepped(r) /\ ~Held(me.key))
             => after = [me EXCEPT !.pc = "force_dispatch"] /\ Untouched
          /\ (me.pc = "force_dispatch" /\ Stepped(r))
             => /\ after.pc = "done" /\ after.outcome = "ack"
                /\ after.result = Ack
                /\ DispatchedOnce(me.key)
          /\ me.pc \in {"force_check", "force_dispatch"}
             => ENABLED (ForceCheck(r) \/ ForceDispatch(r))
          /\ after.force
             => /\ after.pc \in {"force_check", "force_dispatch", "done"}
                /\ after.pc = "done" => after.result = Ack
    ]_vars

\* a forced refresh on a key that has an entry answered with the
\* acknowledgment and left its refresh queued
ForcedAckWitness ==
  \E r \in Readers :
    /\ reader[r].pc = "done" /\ reader[r].force
    /\ reader[r].result = Ack
    /\ reader[r].key \in DOMAIN cache
    /\ CopiesIn(NewTask(reader[r].key, RefreshingKey(reader[r].key)), tasks) = 1

\* a run of update_cache fails: compute_func raises, then the handler runs
Failing(t) ==
  t.pc = "computing" /\ tasks' = Move(tasks, t, [t EXCEPT !.pc = "except"])

Handling(t) == t.pc = "except" /\ tasks' = Retire(tasks, t)

\* C8: when compute_func fails in a dispatched refresh, the entry of the key
\* stays exactly as it was (or stays absent), the refreshing flag is
\* deleted, and no reader sees the failure.
RefreshFailure ==
  [][/\ \A t \in BagToSet(tasks) :
          /\ Failing(t) => cache' = cache /\ reader' = reader
          /\ Handling(t)
             => /\ EntryOf(cache', t.key) = EntryOf(cache, t.key)
                /\ reader' = reader
                /\ t.refreshing_key # ""
                   => /\ t.refreshing_key \notin DOMAIN cache'
                      /\ cache' = CacheDelete(cache, t.refreshing_key)
                /\ t.refreshing_key = "" => cache' = cache
     /\ \A r \in Readers :
          (Stepped(r) /\ reader'[r].outcome = "raised")
             => reader[r].pc = "computing" /\ tasks' = tasks
    ]_vars

\* a dispatched refresh has failed while the key has an entry and its flag
RefreshFailureWitness ==
  \E t \in BagToSet(tasks) :
    /\ t.pc = "except" /\ t.refreshing_key # ""
    /\ t.key \in DOMAIN cache
    /\ Held(t.key)

\* C9: no write replaces the entry of a key by one with a smaller timestamp.
TimestampMonotonic ==
  [][\A k \in MainKeys :
       (k \in DOMAIN cache /\ k \in DOMAIN cache')
          => cache'[k].value.timestamp >= cache[k].value.timestamp]_vars

\* the parameters of a query string without the control parameter
Params(q) == SelectSeq(q, LAMBDA p : p[1] # "force_refresh")

IsPermutation(a, b) ==
  /\ Len(a) = Len(b)
  /\ \E f \in Permutations(1..Len(a)) : \A i \in 1..Len(a) : b[i] = a[f[i]]

\* every parameter is named once
DistinctNames(q) == \A i, j \in 1..Len(q) : q[i][1] = q[j][1] => i = j

\* C10: requests with the same path and the same parameters in any order
\* (force_refresh left out) derive the same key; stated for query strings
\* that name every parameter once.
KeyOrderIndependent ==
  \A r1, r2 \in Readers :
    ( /\ reader[r1].pc # "idle" /\ reader[r2].pc # "idle"
      /\ reader[r1].request.path = reader[r2].request.path
      /\ DistinctNames(reader[r1].request.query)
      /\ IsPermutation(Params(reader[r1].request.query),
                       Params(reader[r2].request.query)) )
       => reader[r1].key = reader[r2].key

\* the k=v pairs of a parameter list, joined by "&"
RECURSIVE PairsJoined(_)
PairsJoined(ps) ==
  LET n == Len(ps)
      kv == ps[n][1] \o "=" \o ps[n][2]
  IN IF n = 1 THEN kv ELSE PairsJoined(SubSeq(ps, 1, n - 1)) \o "&" \o kv

\* C11: requests with the same path and the same ordered parameters that
\* differ only in presence, value and position of force_refresh derive the
\* same key; the key is the path alone when no parameter remains, else the
\* path, "?" and the k=v pairs joined by "&" (the format is stated for query
\* strings that name every parameter once).
KeyIgnoresForceRefresh ==
  /\ \A r1, r2 \in Readers :
       ( /\ reader[r1].pc # "idle" /\ reader[r2].pc # "idle"
         /\ reader[r1].request.path = reader[r2].request.path
         /\ Params(reader[r1].request.query)
              = Params(reader[r2].request.query) )
          => reader[r1].key = reader[r2].key
  /\ \A r \in Readers :
       (reader[r].pc # "idle" /\ DistinctNames(reader[r].request.query))
          => LET ps == Params(reader[r].request.query)
             IN reader[r].key = IF ps = <<>> THEN reader[r].request.path
                                ELSE reader[r].request.path \o "?"
                                       \o PairsJoined(ps)

\* one request carries force_refresh, the other does not; both carry the
\* same parameter
KeyIgnoresForceRefreshWitness ==
  \E r1, r2 \in Readers :
    /\ reader[r1].pc # "idle" /\ reader[r2].pc # "idle"
    /\ reader[r1].request.query = <<Param("a", "1")>>
    /\ reader[r2].request.query
         = <<Param("force_refresh", "1"), Param("a", "1")>>
    /\ reader[r1].key = "/p?a=1" /\ reader[r2].key = "/p?a=1"

\* the jobs registered under an id
JobsOf(js, k) == { i \in 1..Len(js) : js[i].id = k }

\* C12: after any sequence of schedule(key, interval, fn) calls exactly one
\* job is registered per key called with, it is the job of the first call
\* for that key, and a later call for the key changes nothing.
RegisteredOnce ==
  [][/\ \A k \in SchedKeys : Cardinality(JobsOf(jobs', k)) <= 1
     /\ \A n \in 1..Len(jobs) : n <= Len(jobs') /\ jobs'[n] = jobs[n]
     /\ \A k \in SchedKeys, i \in SchedIntervals, f \in SchedFuncs :
          Schedule(k, i, f)
             => /\ Cardinality(JobsOf(jobs', k)) = 1
                /\ JobExists(k) => jobs' = jobs
                /\ ~JobExists(k) => jobs' = Append(jobs, Job(k, i, f))
    ]_vars

\* every key is registered, so any further call repeats a key; the jobs
\* differ in interval and in compute function
RegisteredOnceWitness ==
  /\ \A k \in SchedKeys : JobExists(k)
  /\ \E m, n \in 1..Len(jobs) :
       jobs[m].interval # jobs[n].interval /\ jobs[m].func # jobs[n].func

E2EStoredAt(ts) ==
  /\ GenerateKey(E2ERequest) \in DOMAIN cache
  /\ cache[GenerateKey(E2ERequest)].value.timestamp = ts

\* the scenario's call returns in this step
E2EReturns ==
  reader[E2ECaller].pc # "done" /\ reader'[E2ECaller].pc = "done"

\* C14: with timeout = 20 and refresh_margin = 10, the read at t=0 on the
\* empty store misses and stores what it computed with timestamp 0; the read
\* at t=5 is a hit returning that data; the read at t=12 is stale, returns
\* that data and dispatches one refresh, which stores what it computed with
\* timestamp 12; the read at t=13 is a hit returning the data of that new
\* entry.
EndToEnd ==
  [][LET me == reader[E2ECaller]
         after == reader'[E2ECaller]
         k == GenerateKey(E2ERequest)
     IN /\ (now = 0 /\ me.pc = "get" /\ Stepped(E2ECaller))
           => after.pc = "computing"
        /\ (now = 0 /\ me.pc = "miss_set" /\ E2EReturns)
           => /\ after.outcome = "miss" /\ after.result = me.new_value
              /\ cache'[k].value = Entry(me.new_value, 0)
        /\ (now = 5 /\ E2EStoredAt(0) /\ E2EReturns)
           => /\ after.outcome = "hit"
              /\ after.result = cache[k].value.data
              /\ Untouched
        /\ (now = 12 /\ E2EStoredAt(0) /\ E2EReturns)
           => /\ after.outcome = "stale"
              /\ after.result = cache[k].value.data
              /\ DispatchedOnce(k)
        /\ \A t \in BagToSet(tasks) :
             (now = 12 /\ t.pc = "set" /\ tasks' # tasks)
                => cache'[k].value = Entry(t.val, 12)
        /\ (now = 13 /\ E2EStoredAt(12) /\ E2EReturns)
           => /\ after.outcome = "hit"
              /\ after.result = cache[k].value.data
              /\ Untouched
    ]_vars

\* the fourth read returned V2, the data the refresh of t=12 stored
EndToEndWitness ==
  /\ now = 13
  /\ E2EStoredAt(12)
  /\ cache[GenerateKey(E2ERequest)].value.data = "V2"
  /\ reader[E2ECaller].pc = "done"
  /\ reader[E2ECaller].outcome = "hit"
  /\ reader[E2ECaller].result = "V2"

\* C15: every refreshing flag that is set is eventually gone, deleted by the
\* refresh dispatched with it or expired by its TTL, whether or not that
\* refresh ever completes.
LockRemoved == \A k \in MainKeys : Held(k) ~> ~Held(k)

\* C16: right after a miss-path call has stored and returned the value it
\* computed, no refreshing flag exists for its key, even if one was set
\* earlier.
MissFillClearsLock ==
  [][\A r \in Readers :
       (reader[r].pc = "miss_set" /\ reader'[r].outcome = "miss")
          => ~CacheHas(cache', now', RefreshingKey(reader[r].key))]_vars

\* a run of periodic_refresh_task: update_cache without refreshing_key
Periodic(t) == t.refreshing_key = ""

\* the entry of k is inside the freshness window
FreshEntry(k) ==
  /\ CacheHas(cache, now, k)
  /\ now - cache[k].value.timestamp < timeout - refresh_margin

\* C17: a periodic run for a registered key goes through update_cache
\* whatever the store holds: the trigger can fire, compute_func is called
\* and, when it returned, the entry is overwritten with the data and the
\* time read at line 132, also when the current entry is fresh.
PeriodicIgnoresFreshness ==
  [][/\ \A k \in MainKeys :
          (JobExists(k) /\ ~JobRunning(k) /\ HasRoom)
             => ENABLED PeriodicFire(k)
     /\ \A t \in BagToSet(tasks) :
          Periodic(t)
             => /\ t.pc = "queued" => ENABLED TaskStart(t)
                /\ t.pc = "computing" => ENABLED TaskComputed(t)
                /\ t.pc = "set" => ENABLED TaskSet(t)
                /\ (t.pc = "set" /\ tasks' = Retire(tasks, t))
                   => /\ cache'[t.key].value = Entry(t.val, t.ts)
                      /\ cache' = CacheSet(cache, now, t.key,
                                           Entry(t.val, t.ts), 0)
                      /\ t.ts <= now
    ]_vars

\* a periodic run has computed V2 in the very second a fresh entry holding
\* V1 is in the store, and is about to write
PeriodicIgnoresFreshnessWitness ==
  \E t \in BagToSet(tasks) :
    /\ Periodic(t) /\ t.pc = "set" /\ t.val = "V2" /\ t.ts = now
    /\ FreshEntry(t.key)
    /\ cache[t.key].value.data = "V1"

\* the second in which the refreshing flag now in the store was set
\* (refresh_margin > 0: the flag expires refresh_margin after it was set)
LockSetAt(k) == cache[RefreshingKey(k)].expires - refresh_margin

\* the flag of t's key was set after t's compute_func had returned, hence
\* by a dispatch later than the one that submitted t
LaterLock(t) == Held(t.key) /\ LockSetAt(t.key) > t.ts

\* C18: a refreshing flag is removed only by the refresh dispatched when it
\* was set, or by its TTL; stated for a refresh that outlives its flag: a
\* refresh that ends while the store holds a flag set by a later dispatch,
\* whose refresh is still in the pool, leaves that flag in place.
LockOwnership ==
  [][\A t \in BagToSet(tasks) :
       ( /\ t.pc = "delete" /\ tasks' = Retire(tasks, t)
         /\ LaterLock(t)
         /\ \E u \in BagToSet(tasks') : u.refreshing_key = t.refreshing_key )
          => CacheHas(cache', now', t.refreshing_key)]_vars

\* C19: without an explicit compute_func, the compute function a call of
\* the wrapper uses (called at line 97 on its miss, submitted at lines 76
\* and 93 with its refresh) invokes the wrapped function with the arguments
\* of that same call.
BindsOwnArguments ==
  \A r \in Readers :
    reader[r].pc \in {"computing", "force_dispatch", "stale_dispatch"}
       => reader[r].compute_func = Lambda(reader[r].args)

\* the step stores under k what a compute function returned: line 132 run
\* by a miss-path call or by a run of update_cache on a pool thread
StoresComputed(k) ==
  \/ \E r \in Readers :
       /\ reader[r].pc = "miss_set" /\ reader[r].key = k /\ Stepped(r)
       /\ cache'[k].value = Entry(reader[r].new_value, reader[r].ts)
  \/ \E t \in BagToSet(tasks) :
       /\ t.pc = "set" /\ t.key = k /\ tasks' # tasks
       /\ cache'[k].value = Entry(t.val, t.ts)

=============================================================================
